---- MODULE Spec2Model ----
(***************************************************************************)
(* Model of asyncbatch.BatchProcessor (src/asyncbatch/asyncbatch.go):      *)
(* producers calling Add, the worker goroutines running run(), and         *)
(* callers of Shutdown; NewBatchProcessor called with arbitrary arguments  *)
(* (CtorSpec); the processor under a discrete clock of 1 ms ticks          *)
(* (TimedSpec); and the processor with a worker function that panics       *)
(* (FaultSpec).                                                            *)
(*                                                                         *)
(* Ratios are float64 in the source; here a ratio is an integer number of  *)
(* percent, and int(float64(maxSize)*ratio) is (maxSize * pct) \div 100.   *)
(* The ratios drawn (50 and 100 percent, i.e. 0.5 and 1.0) are exact in    *)
(* binary floating point, so the integer arithmetic agrees with the        *)
(* source's.                                                               *)
(***************************************************************************)
EXTENDS Integers, Sequences, FiniteSets, TLC

(* ---- bounds of the model ---- *)
MaxBatch == 2       \* largest maxSize passed to WithMaxSize
MaxWorkers == 2     \* largest n passed to WithNumWorkers
MaxQueue == 4       \* largest capacity of bp.tasks constructed
MaxItems == 4       \* number of items the producers have to submit
NumProducers == 2   \* goroutines calling Add
NumClosers == 2     \* goroutines calling Shutdown, once each
MaxWait == 3        \* longest duration passed to WithUnderfilledWait, in ticks

Producers == 1..NumProducers
Closers == 1..NumClosers
Items == 1..MaxItems
RatioOpts == {50, 100}

VARIABLES
    opts,           \* the arguments of the call to NewBatchProcessor
    err,            \* the error it returned; "pending" until it has returned
    maxSize, upperRatio, lowerRatio, numWorkers, \* configuration fields of bp
    fixedWait, underfilledWait,                  \* durations, in ticks of 1 ms
    tasks,          \* contents of the buffered channel bp.tasks
    tasksClosed,    \* bp.tasks has been closed
    closed,         \* bp.closed
    stop,           \* bp.stop has been closed
    closeOnce,      \* bp.closeOnce: "fresh", "running" or "done"
    wg,             \* counter of bp.wg
    wpc, batch, timer,      \* per worker: position in run(), local batch, timer
    timerLeft,      \* per worker: ticks until its timer fires
    age,            \* per worker: ticks since the last append to its batch, the
                    \* batch not yet passed to bp.worker; -1 otherwise
    phaseAge,       \* per worker: ticks since the second wait of handleTimerExpired
                    \* was entered, the items gathered since not yet passed to
                    \* bp.worker; -1 otherwise
    calls,          \* invocations of bp.worker so far, in order of their start
    ppc,            \* per producer: position in Add
    result,         \* the value the last Add to return returned
    nextItem,       \* the next item to be accepted; items are numbered as accepted
    acceptedEarly,  \* items for which Add returned nil before Shutdown was called
    spc,            \* per closer: position in Shutdown
    remaining,      \* local slice of Shutdown's drain
    panicked        \* the process died of a runtime panic

cfgVars == <<opts, err, maxSize, upperRatio, lowerRatio, numWorkers, fixedWait, underfilledWait>>
chanVars == <<tasks, tasksClosed, closed, stop, closeOnce, wg>>
clockVars == <<timerLeft, age, phaseAge>>
workerVars == <<wpc, batch, timer, clockVars>>
producerVars == <<ppc, result, nextItem, acceptedEarly>>
closerVars == <<spc, remaining>>
vars == <<cfgVars, chanVars, workerVars, calls, producerVars, closerVars, panicked>>

Workers == 1..numWorkers

(* ---- construction ---- *)

\* the options of the package, each named after the field it sets
OptionNames ==
    {"maxSize", "upperRatio", "lowerRatio", "fixedWait", "underfilledWait", "numWorkers"}

\* a struct literal with a smaller default batch size
Defaults_small ==
    [maxSize |-> 100, upperRatio |-> 50, lowerRatio |-> 10,
     fixedWait |-> 5, underfilledWait |-> 20, numWorkers |-> 1]

\* the struct literal of NewBatchProcessor: the defaults
Defaults ==
    [maxSize |-> 1000, upperRatio |-> 50, lowerRatio |-> 10,
     fixedWait |-> 5, underfilledWait |-> 20, numWorkers |-> 1]

\* a WithMaxSize that assigns whatever it is given
WithMaxSize_unchecked(size, bp) == [bp EXCEPT !.maxSize = size]

WithMaxSize(size, bp) == IF size > 0 THEN [bp EXCEPT !.maxSize = size] ELSE bp

WithUpperRatio(ratio, bp) ==
    IF ratio > 0 /\ ratio <= 100 THEN [bp EXCEPT !.upperRatio = ratio] ELSE bp

WithLowerRatio(ratio, bp) ==
    IF ratio > 0 /\ ratio <= 100 THEN [bp EXCEPT !.lowerRatio = ratio] ELSE bp

WithFixedWait(duration, bp) ==
    IF duration > 0 THEN [bp EXCEPT !.fixedWait = duration] ELSE bp

WithUnderfilledWait(duration, bp) ==
    IF duration > 0 THEN [bp EXCEPT !.underfilledWait = duration] ELSE bp

WithNumWorkers(n, bp) == IF n > 0 THEN [bp EXCEPT !.numWorkers = n] ELSE bp

\* the validation of NewBatchProcessor after the check of the worker function
ConfigError(bp) ==
    IF bp.numWorkers < 1 \/ bp.numWorkers > 8 THEN "numWorkers must be between 1 and 8"
    ELSE IF bp.upperRatio <= 0 \/ bp.upperRatio > 100 THEN "upperRatio must be between 0 and 1"
    ELSE IF bp.lowerRatio <= 0 \/ bp.lowerRatio > 100 THEN "lowerRatio must be between 0 and 1"
    ELSE IF bp.upperRatio < bp.lowerRatio
        THEN "upperRatio must be greater than or equal to lowerRatio"
    ELSE IF bp.fixedWait >= bp.underfilledWait
        THEN "fixedWait must be less than underfilledWait"
    ELSE "nil"

\* the options NewBatchProcessor is called with in the runs of the processor:
\* o.given names the options passed, o[n] is the value passed to option n
Options ==
    {o \in [worker : {"fn"}, given : {OptionNames}, maxSize : 1..MaxBatch, upperRatio : RatioOpts,
            lowerRatio : RatioOpts, fixedWait : {MaxWait - 1},
            underfilledWait : {MaxWait}, numWorkers : 1..MaxWorkers] :
        o.maxSize * o.numWorkers * 2 <= MaxQueue}

\* the struct literal with the options passed applied to it (lines 90-105):
\* one turn of the loop over opts for each option that is passed
ApplyOptions(o) ==
    LET b1 == IF "maxSize" \in o.given THEN WithMaxSize(o.maxSize, Defaults) ELSE Defaults
        b2 == IF "upperRatio" \in o.given THEN WithUpperRatio(o.upperRatio, b1) ELSE b1
        b3 == IF "lowerRatio" \in o.given THEN WithLowerRatio(o.lowerRatio, b2) ELSE b2
        b4 == IF "fixedWait" \in o.given THEN WithFixedWait(o.fixedWait, b3) ELSE b3
        b5 == IF "underfilledWait" \in o.given
              THEN WithUnderfilledWait(o.underfilledWait, b4) ELSE b4
    IN IF "numWorkers" \in o.given THEN WithNumWorkers(o.numWorkers, b5) ELSE b5

\* a queue sized for one batch per worker
TasksCap_unscaled == maxSize * numWorkers

\* cap(bp.tasks)
TasksCap ==
    LET bufferSize == maxSize * numWorkers * 2
    IN IF bufferSize < maxSize * 2 THEN maxSize * 2 ELSE bufferSize

\* a lower threshold without the minimum of 1
lowerThreshold_noMin == (maxSize * lowerRatio) \div 100

\* lowerThreshold of run()
lowerThreshold ==
    LET f == (maxSize * lowerRatio) \div 100
    IN IF f > 1 THEN f ELSE 1

\* a threshold that leaves upperRatio unused
upperThreshold_unused == maxSize

\* int(float64(bp.maxSize)*bp.upperRatio) of run()
upperThreshold == (maxSize * upperRatio) \div 100

\* the processor as NewBatchProcessor returns it for the fields bp: the queue
\* is allocated and numWorkers goroutines are started, each about to enter run()
Constructed(bp) ==
    /\ maxSize = bp.maxSize
    /\ upperRatio = bp.upperRatio
    /\ lowerRatio = bp.lowerRatio
    /\ fixedWait = bp.fixedWait
    /\ underfilledWait = bp.underfilledWait
    /\ numWorkers = bp.numWorkers
    /\ tasks = <<>>
    /\ tasksClosed = FALSE
    /\ closed = FALSE
    /\ stop = FALSE
    /\ closeOnce = "fresh"
    /\ wg = bp.numWorkers
    /\ wpc = [w \in 1..bp.numWorkers |-> "loop"]
    /\ batch = [w \in 1..bp.numWorkers |-> <<>>]
    /\ timer = [w \in 1..bp.numWorkers |-> "nil"]
    /\ timerLeft = [w \in 1..bp.numWorkers |-> 0]
    /\ age = [w \in 1..bp.numWorkers |-> -1]
    /\ phaseAge = [w \in 1..bp.numWorkers |-> -1]

\* nobody has called Add or Shutdown, nothing has been processed
Untouched ==
    /\ calls = <<>>
    /\ ppc = [p \in Producers |-> "idle"]
    /\ result = "none"
    /\ nextItem = 1
    /\ acceptedEarly = {}
    /\ spc = [c \in Closers |-> "idle"]
    /\ remaining = <<>>
    /\ panicked = FALSE

Init ==
    /\ opts \in Options
    /\ err = ConfigError(ApplyOptions(opts))
    /\ err = "nil"
    /\ Constructed(ApplyOptions(opts))
    /\ Untouched

(* ---- NewBatchProcessor, called with any arguments ---- *)

\* the arguments NewBatchProcessor is called with, valid or not: the worker
\* function, nil or not, the options passed (none, some or all of them) and
\* the value passed to each; the entry of an option that is not passed is 0
Requests ==
    {o \in [worker : {"nil", "fn"},
            given : SUBSET OptionNames,
            maxSize : -1..MaxBatch,
            upperRatio : {0, 50, 100, 150},
            lowerRatio : {0, 50, 100, 150},
            fixedWait : 0..MaxWait,
            underfilledWait : 0..MaxWait,
            numWorkers : (-1..MaxWorkers) \cup {8, 9}] :
        \A n \in OptionNames \ o.given : o[n] = 0}

\* a NewBatchProcessor that validates the options before the worker function
NewBatchProcessor_workerLast(worker, o) ==
    IF ConfigError(ApplyOptions(o)) # "nil"
    THEN [bp |-> "nil", err |-> ConfigError(ApplyOptions(o))]
    ELSE IF worker = "nil" THEN [bp |-> "nil", err |-> "worker function is required"]
    ELSE [bp |-> ApplyOptions(o), err |-> "nil"]

\* NewBatchProcessor, lines 90-125: what it returns, (nil, error) or (bp, nil)
NewBatchProcessor(worker, o) ==
    IF worker = "nil" THEN [bp |-> "nil", err |-> "worker function is required"]
    ELSE IF ConfigError(ApplyOptions(o)) # "nil"
    THEN [bp |-> "nil", err |-> ConfigError(ApplyOptions(o))]
    ELSE [bp |-> ApplyOptions(o), err |-> "nil"]

\* no processor exists: no field is set, no queue allocated, no goroutine started
NoProcessor ==
    /\ maxSize = 0
    /\ upperRatio = 0
    /\ lowerRatio = 0
    /\ fixedWait = 0
    /\ underfilledWait = 0
    /\ numWorkers = 0
    /\ tasks = <<>>
    /\ tasksClosed = FALSE
    /\ closed = FALSE
    /\ stop = FALSE
    /\ closeOnce = "fresh"
    /\ wg = 0
    /\ wpc = <<>>
    /\ batch = <<>>
    /\ timer = <<>>
    /\ timerLeft = <<>>
    /\ age = <<>>
    /\ phaseAge = <<>>

\* NewBatchProcessor is about to be called
CtorInit ==
    /\ opts \in Requests
    /\ err = "pending"
    /\ NoProcessor
    /\ Untouched

\* NewBatchProcessor runs and returns: on an error nothing has been created
\* (lines 108-125 return before make(chan) and the go statements), otherwise
\* the queue is allocated and the workers are started (lines 127-141)
Construct ==
    /\ err = "pending"
    /\ LET r == NewBatchProcessor(opts.worker, opts) IN
        /\ err' = r.err
        /\ IF r.err = "nil"
           THEN /\ maxSize' = r.bp.maxSize
                /\ upperRatio' = r.bp.upperRatio
                /\ lowerRatio' = r.bp.lowerRatio
                /\ fixedWait' = r.bp.fixedWait
                /\ underfilledWait' = r.bp.underfilledWait
                /\ numWorkers' = r.bp.numWorkers
                /\ wg' = r.bp.numWorkers
                /\ wpc' = [w \in 1..r.bp.numWorkers |-> "loop"]
                /\ batch' = [w \in 1..r.bp.numWorkers |-> <<>>]
                /\ timer' = [w \in 1..r.bp.numWorkers |-> "nil"]
                /\ timerLeft' = [w \in 1..r.bp.numWorkers |-> 0]
                /\ age' = [w \in 1..r.bp.numWorkers |-> -1]
                /\ phaseAge' = [w \in 1..r.bp.numWorkers |-> -1]
                /\ UNCHANGED <<tasks, tasksClosed, closed, stop, closeOnce>>
           ELSE UNCHANGED <<maxSize, upperRatio, lowerRatio, numWorkers, fixedWait,
                            underfilledWait, chanVars, workerVars>>
    /\ UNCHANGED <<opts, calls, producerVars, closerVars, panicked>>

CtorSpec == CtorInit /\ [][Construct]_vars

(* ---- Add ---- *)

\* The values the unsynchronised read of bp.closed in Add can yield.  The
\* field is a plain bool written by Shutdown: until the writer's next
\* synchronising operation (close(bp.stop)) the write races with the read,
\* which may still see the old value.
ClosedRead ==
    IF closed /\ ~stop THEN {TRUE, FALSE} ELSE {closed}

\* items for which Add returned nil
accepted == 1..(nextItem - 1)

\* Add calls past the check of bp.closed, about to send
InFlight == Cardinality({p \in Producers : ppc[p] = "send"})

\* Add, line 146: the check of bp.closed.  A producer calls Add while an item
\* is left for it to submit; a rejected item stays with the producers.
AddCheck(p) ==
    /\ ~panicked
    /\ ppc[p] = "idle"
    /\ nextItem + InFlight <= MaxItems
    /\ \E c \in ClosedRead :
        IF c
        THEN /\ result' = "closed"
             /\ UNCHANGED ppc
        ELSE /\ ppc' = [ppc EXCEPT ![p] = "send"]
             /\ UNCHANGED result
    /\ UNCHANGED <<nextItem, acceptedEarly>>
    /\ UNCHANGED <<cfgVars, chanVars, workerVars, calls, closerVars, panicked>>

\* TrySend without the capacity check: the send always succeeds
TrySend_unbounded(q, task, cap) == [q |-> Append(q, task), err |-> "nil"]

\* the non-blocking send of Add's select on a channel holding q with capacity
\* cap: the queue afterwards and the value Add returns
TrySend(q, task, cap) ==
    IF Len(q) < cap
    THEN [q |-> Append(q, task), err |-> "nil"]
    ELSE [q |-> q, err |-> "full"]

\* Add, lines 149-154: the select.  A send on a closed channel panics.
AddSend(p) ==
    /\ ~panicked
    /\ ppc[p] = "send"
    /\ IF tasksClosed
       THEN /\ panicked' = TRUE
            /\ UNCHANGED <<tasks, ppc, result, nextItem, acceptedEarly>>
       ELSE LET r == TrySend(tasks, nextItem, TasksCap) IN
            /\ tasks' = r.q
            /\ result' = r.err
            /\ ppc' = [ppc EXCEPT ![p] = "idle"]
            /\ nextItem' = IF r.err = "nil" THEN nextItem + 1 ELSE nextItem
            /\ acceptedEarly' = IF r.err = "nil" /\ closeOnce = "fresh"
                                THEN acceptedEarly \cup {nextItem} ELSE acceptedEarly
            /\ UNCHANGED panicked
    /\ UNCHANGED <<cfgVars, tasksClosed, closed, stop, closeOnce, wg, workerVars, calls, closerVars>>

(* ---- the worker goroutines: run() ---- *)

\* flushBatch without the len(batch) > 0 guard
flushBatch_unguarded(b) == <<b>>

\* flushBatch: the batches it hands to bp.worker
flushBatch(b) == IF Len(b) > 0 THEN <<b>> ELSE <<>>

\* where run() and handleTimerExpired call flushBatch, and how control goes on
\* after the call: "return" leaves run(), "reset" is resetBatchAndTimer,
\* "keep" is handleTimerExpired's `return batch, timer`
FlushSites == {"flushStop", "flushUpper", "flushClosed", "flushLower",
               "flushUClosed", "flushUTimer", "flushUStop"}

Continuation(site) ==
    CASE site \in {"flushStop", "flushClosed"} -> "return"
      [] site \in {"flushUpper", "flushLower", "flushUTimer"} -> "reset"
      [] site \in {"flushUClosed", "flushUStop"} -> "keep"

\* a worker is inside bp.worker
InProcess(w) == wpc[w] \in FlushSites

\* what follows a flushBatch call at site: leaving run() (the deferred
\* timer.Stop and wg.Done; the locals batch and timer cease to exist),
\* resetBatchAndTimer, or going round the loop with the batch kept
After(w, site) ==
    CASE Continuation(site) = "return" ->
            /\ wpc' = [wpc EXCEPT ![w] = "done"]
            /\ wg' = wg - 1
            /\ batch' = [batch EXCEPT ![w] = <<>>]
            /\ timer' = [timer EXCEPT ![w] = "nil"]
      [] Continuation(site) = "reset" ->
            /\ wpc' = [wpc EXCEPT ![w] = "loop"]
            /\ batch' = [batch EXCEPT ![w] = <<>>]
            /\ timer' = [timer EXCEPT ![w] = "nil"]
            /\ UNCHANGED wg
      [] Continuation(site) = "keep" ->
            /\ wpc' = [wpc EXCEPT ![w] = "loop"]
            /\ UNCHANGED <<batch, timer, wg>>

\* bp.flushBatch(batch) called at site: bp.worker starts, or nothing is called
\* and control goes on
Flush(w, site) ==
    IF flushBatch(batch[w]) # <<>>
    THEN /\ calls' = calls \o [i \in 1..Len(flushBatch(batch[w])) |->
                                [by |-> w, batch |-> flushBatch(batch[w])[i]]]
         /\ wpc' = [wpc EXCEPT ![w] = site]
         /\ UNCHANGED <<batch, timer, wg>>
    ELSE /\ UNCHANGED calls
         /\ After(w, site)

\* a run() without the threshold check of lines 201-206
RunLoop_noThreshold(w) ==
    /\ ~panicked
    /\ wpc[w] = "loop"
    /\ IF stop
       THEN Flush(w, "flushStop")
       ELSE /\ timer' = [timer EXCEPT ![w] = "fixedWait"]
            /\ wpc' = [wpc EXCEPT ![w] = "select"]
            /\ UNCHANGED <<batch, wg, calls>>
    /\ UNCHANGED <<cfgVars, tasks, tasksClosed, closed, stop, closeOnce>>
    /\ UNCHANGED <<producerVars, closerVars, panicked>>

\* run(), lines 192-209: the stop check, the threshold check, initTimer
RunLoop(w) ==
    /\ ~panicked
    /\ wpc[w] = "loop"
    /\ IF stop
       THEN Flush(w, "flushStop")
       ELSE IF Len(batch[w]) >= maxSize \/ Len(batch[w]) >= upperThreshold
       THEN Flush(w, "flushUpper")
       ELSE /\ timer' = [timer EXCEPT ![w] = "fixedWait"]
            /\ wpc' = [wpc EXCEPT ![w] = "select"]
            /\ UNCHANGED <<batch, wg, calls>>
    /\ UNCHANGED <<cfgVars, tasks, tasksClosed, closed, stop, closeOnce>>
    /\ UNCHANGED <<producerVars, closerVars, panicked>>

\* run(), lines 212-217: a task is received, or bp.tasks is closed and empty
RunReceive(w) ==
    /\ ~panicked
    /\ wpc[w] = "select"
    /\ Len(tasks) > 0 \/ tasksClosed
    /\ IF Len(tasks) > 0
       THEN /\ batch' = [batch EXCEPT ![w] = Append(@, Head(tasks))]
            /\ tasks' = Tail(tasks)
            /\ wpc' = [wpc EXCEPT ![w] = "loop"]
            /\ UNCHANGED <<timer, wg, calls>>
       ELSE /\ Flush(w, "flushClosed")
            /\ UNCHANGED tasks
    /\ UNCHANGED <<cfgVars, tasksClosed, closed, stop, closeOnce>>
    /\ UNCHANGED <<producerVars, closerVars, panicked>>

\* run(), lines 219-220 and handleTimerExpired, lines 251-257: the fixedWait
\* timer fires
TimerExpired(w) ==
    /\ ~panicked
    /\ wpc[w] = "select"
    /\ IF Len(batch[w]) >= lowerThreshold
       THEN Flush(w, "flushLower")
       ELSE /\ timer' = [timer EXCEPT ![w] = "underfilledWait"]
            /\ wpc' = [wpc EXCEPT ![w] = "uselect"]
            /\ UNCHANGED <<batch, wg, calls>>
    /\ UNCHANGED <<cfgVars, tasks, tasksClosed, closed, stop, closeOnce>>
    /\ UNCHANGED <<producerVars, closerVars, panicked>>

\* handleTimerExpired, lines 259-264: a task is received in the second wait
UnderfilledReceive(w) ==
    /\ ~panicked
    /\ wpc[w] = "uselect"
    /\ Len(tasks) > 0 \/ tasksClosed
    /\ IF Len(tasks) > 0
       THEN /\ batch' = [batch EXCEPT ![w] = Append(@, Head(tasks))]
            /\ tasks' = Tail(tasks)
            /\ wpc' = [wpc EXCEPT ![w] = "loop"]
            /\ UNCHANGED <<timer, wg, calls>>
       ELSE /\ Flush(w, "flushUClosed")
            /\ UNCHANGED tasks
    /\ UNCHANGED <<cfgVars, tasksClosed, closed, stop, closeOnce>>
    /\ UNCHANGED <<producerVars, closerVars, panicked>>

\* handleTimerExpired, lines 266-268: the underfilledWait timer fires
UnderfilledExpired(w) ==
    /\ ~panicked
    /\ wpc[w] = "uselect"
    /\ Flush(w, "flushUTimer")
    /\ UNCHANGED <<cfgVars, tasks, tasksClosed, closed, stop, closeOnce>>
    /\ UNCHANGED <<producerVars, closerVars, panicked>>

\* handleTimerExpired, lines 270-272: bp.stop is closed during the second wait
UnderfilledStop(w) ==
    /\ ~panicked
    /\ wpc[w] = "uselect"
    /\ stop
    /\ Flush(w, "flushUStop")
    /\ UNCHANGED <<cfgVars, tasks, tasksClosed, closed, stop, closeOnce>>
    /\ UNCHANGED <<producerVars, closerVars, panicked>>

\* bp.worker returns to the worker goroutine that called it
WorkerReturn(w) ==
    /\ ~panicked
    /\ InProcess(w)
    /\ After(w, wpc[w])
    /\ UNCHANGED calls
    /\ UNCHANGED <<cfgVars, tasks, tasksClosed, closed, stop, closeOnce>>
    /\ UNCHANGED <<producerVars, closerVars, panicked>>

(* ---- Shutdown ---- *)

\* a Do that lets a call made during the first call return at once
OnceDo_noWait(once) == IF once = "fresh" THEN "run" ELSE "skip"

\* a Do that runs the function again once the first call is done
OnceDo_rerun(once) == IF once = "running" THEN "wait" ELSE "run"

\* what closeOnce.Do does with a call: run the function (the first call), wait
\* for the running call to finish, or return at once
OnceDo(once) ==
    CASE once = "fresh" -> "run"
      [] once = "running" -> "wait"
      [] once = "done" -> "skip"

\* a Shutdown that closes bp.tasks without processing what is left in it
DrainBatches_dropped(q) == <<>>

\* Shutdown, lines 166-172: the batches the drain hands to bp.worker
DrainBatches(q) == IF Len(q) > 0 THEN <<q>> ELSE <<>>

\* a Shutdown that does not wait for the worker goroutines
WaitDone_skipped == TRUE

\* Shutdown, wg.Wait(): every worker goroutine has left run()
WaitDone == wg = 0

\* some call to Shutdown has returned
returned == \E c \in Closers : spc[c] = "returned"

\* the closer is running the function passed to closeOnce.Do
InBody(c) == spc[c] \in {"closeStop", "wgWait", "closeTasks", "drain", "inWorker"}

\* Shutdown, lines 158-160: the call enters closeOnce.Do; the first call sets
\* bp.closed
ShutdownCall(c) ==
    /\ ~panicked
    /\ spc[c] = "idle"
    /\ CASE OnceDo(closeOnce) = "run" ->
                /\ closeOnce' = "running"
                /\ closed' = TRUE
                /\ spc' = [spc EXCEPT ![c] = "closeStop"]
         [] OnceDo(closeOnce) = "wait" ->
                /\ spc' = [spc EXCEPT ![c] = "blocked"]
                /\ UNCHANGED <<closeOnce, closed>>
         [] OnceDo(closeOnce) = "skip" ->
                /\ spc' = [spc EXCEPT ![c] = "returned"]
                /\ UNCHANGED <<closeOnce, closed>>
    /\ UNCHANGED <<cfgVars, tasks, tasksClosed, stop, wg, workerVars, calls>>
    /\ UNCHANGED <<producerVars, remaining, panicked>>

\* Shutdown, line 161: close(bp.stop); closing a closed channel panics
CloseStop(c) ==
    /\ ~panicked
    /\ spc[c] = "closeStop"
    /\ IF stop
       THEN /\ panicked' = TRUE
            /\ UNCHANGED <<stop, spc>>
       ELSE /\ stop' = TRUE
            /\ spc' = [spc EXCEPT ![c] = "wgWait"]
            /\ UNCHANGED panicked
    /\ UNCHANGED <<cfgVars, tasks, tasksClosed, closed, closeOnce, wg, workerVars, calls>>
    /\ UNCHANGED <<producerVars, remaining>>

\* a Shutdown that records, once the workers have exited, that none is left
WgWait_counting(c) ==
    /\ ~panicked
    /\ spc[c] = "wgWait"
    /\ wg = 0
    /\ spc' = [spc EXCEPT ![c] = "closeTasks"]
    /\ numWorkers' = wg
    /\ UNCHANGED <<opts, err, maxSize, upperRatio, lowerRatio, fixedWait, underfilledWait>>
    /\ UNCHANGED <<chanVars, workerVars, calls>>
    /\ UNCHANGED <<producerVars, remaining, panicked>>

\* Shutdown, line 162: bp.wg.Wait() returns
WgWait(c) ==
    /\ ~panicked
    /\ spc[c] = "wgWait"
    /\ WaitDone
    /\ spc' = [spc EXCEPT ![c] = "closeTasks"]
    /\ UNCHANGED <<cfgVars, chanVars, workerVars, calls>>
    /\ UNCHANGED <<producerVars, remaining, panicked>>

\* a Shutdown that leaves bp.tasks open and drains what is buffered in it
CloseTasks_skipped(c) ==
    /\ ~panicked
    /\ spc[c] = "closeTasks"
    /\ spc' = [spc EXCEPT ![c] = "drain"]
    /\ UNCHANGED <<cfgVars, chanVars, workerVars, calls>>
    /\ UNCHANGED <<producerVars, remaining, panicked>>

\* Shutdown, line 165: close(bp.tasks)
CloseTasks(c) ==
    /\ ~panicked
    /\ spc[c] = "closeTasks"
    /\ IF tasksClosed
       THEN /\ panicked' = TRUE
            /\ UNCHANGED <<tasksClosed, spc>>
       ELSE /\ tasksClosed' = TRUE
            /\ spc' = [spc EXCEPT ![c] = "drain"]
            /\ UNCHANGED panicked
    /\ UNCHANGED <<cfgVars, tasks, closed, stop, closeOnce, wg, workerVars, calls>>
    /\ UNCHANGED <<producerVars, remaining>>

\* Shutdown, lines 166-173: the remaining tasks are received and handed to
\* bp.worker; with none remaining the function returns and so does Shutdown
Drain(c) ==
    /\ ~panicked
    /\ spc[c] = "drain"
    /\ remaining' = tasks
    /\ tasks' = <<>>
    /\ calls' = calls \o [i \in 1..Len(DrainBatches(tasks)) |->
                            [by |-> 0, batch |-> DrainBatches(tasks)[i]]]
    /\ IF DrainBatches(tasks) # <<>>
       THEN /\ spc' = [spc EXCEPT ![c] = "inWorker"]
            /\ UNCHANGED closeOnce
       ELSE /\ spc' = [spc EXCEPT ![c] = "returned"]
            /\ closeOnce' = "done"
    /\ UNCHANGED <<cfgVars, tasksClosed, closed, stop, wg, workerVars>>
    /\ UNCHANGED <<producerVars, panicked>>

\* Shutdown, lines 171-174: bp.worker(remaining) returns, then Shutdown
ShutdownReturn(c) ==
    /\ ~panicked
    /\ spc[c] = "inWorker"
    /\ spc' = [spc EXCEPT ![c] = "returned"]
    /\ closeOnce' = "done"
    /\ UNCHANGED <<cfgVars, tasks, tasksClosed, closed, stop, wg, workerVars, calls>>
    /\ UNCHANGED <<producerVars, remaining, panicked>>

\* a call that waited in closeOnce.Do returns once the first call is done
ShutdownUnblock(c) ==
    /\ ~panicked
    /\ spc[c] = "blocked"
    /\ closeOnce = "done"
    /\ spc' = [spc EXCEPT ![c] = "returned"]
    /\ UNCHANGED <<cfgVars, chanVars, workerVars, calls>>
    /\ UNCHANGED <<producerVars, remaining, panicked>>

(* ---- the specification ---- *)

Next ==
    \/ \E p \in Producers : AddCheck(p)
    \/ \E p \in Producers : AddSend(p)
    \/ \E w \in Workers : RunLoop(w) /\ UNCHANGED clockVars
    \/ \E w \in Workers : RunReceive(w) /\ UNCHANGED clockVars
    \/ \E w \in Workers : TimerExpired(w) /\ UNCHANGED clockVars
    \/ \E w \in Workers : UnderfilledReceive(w) /\ UNCHANGED clockVars
    \/ \E w \in Workers : UnderfilledExpired(w) /\ UNCHANGED clockVars
    \/ \E w \in Workers : UnderfilledStop(w) /\ UNCHANGED clockVars
    \/ \E w \in Workers : WorkerReturn(w) /\ UNCHANGED clockVars
    \/ \E c \in Closers : ShutdownCall(c)
    \/ \E c \in Closers : CloseStop(c)
    \/ \E c \in Closers : WgWait(c)
    \/ \E c \in Closers : CloseTasks(c)
    \/ \E c \in Closers : Drain(c)
    \/ \E c \in Closers : ShutdownReturn(c)
    \/ \E c \in Closers : ShutdownUnblock(c)

Spec == Init /\ [][Next]_vars

\* a step of worker goroutine w
WorkerStep(w) ==
    /\ w \in Workers
    /\ UNCHANGED clockVars
    /\ \/ RunLoop(w)
       \/ RunReceive(w)
       \/ TimerExpired(w)
       \/ UnderfilledReceive(w)
       \/ UnderfilledExpired(w)
       \/ UnderfilledStop(w)
       \/ WorkerReturn(w)

\* worker goroutine w receives a task in one of its two selects
WorkerReceive(w) ==
    /\ w \in Workers
    /\ UNCHANGED clockVars
    /\ RunReceive(w) \/ UnderfilledReceive(w)

\* a step of a call to Shutdown that has entered closeOnce.Do
CloserStep ==
    \E c \in Closers :
        \/ CloseStop(c)
        \/ WgWait(c)
        \/ CloseTasks(c)
        \/ Drain(c)
        \/ ShutdownReturn(c)
        \/ ShutdownUnblock(c)

\* The scheduling the Go runtime provides: a goroutine that can take a step
\* eventually takes one (an armed timer fires, an invocation of the worker
\* function returns, an Add past its check completes its select), and a
\* worker whose selects find a task ready again and again eventually receives
\* one (select picks among its ready cases at random).  Nothing obliges
\* anyone to call Add or Shutdown.
Fairness ==
    /\ WF_vars(\E p \in Producers : AddSend(p))
    /\ WF_vars(CloserStep)
    /\ \A w \in 1..MaxWorkers : WF_vars(WorkerStep(w)) /\ SF_vars(WorkerReceive(w))

FairSpec == Init /\ [][Next]_vars /\ Fairness

(* ---- a worker function that fails ---- *)

\* The worker function panics inside a worker goroutine.  Neither flushBatch
\* nor run() nor the goroutine's closure (lines 135-138) recovers, so the
\* panic unwinds the goroutine and the runtime ends the process.  (The worker
\* function has type func([]T): it has no error to return.)
WorkerPanic(w) ==
    /\ ~panicked
    /\ InProcess(w)
    /\ panicked' = TRUE
    /\ UNCHANGED <<cfgVars, chanVars, workerVars, calls, producerVars, closerVars>>

FaultNext ==
    \/ Next
    \/ \E w \in Workers : WorkerPanic(w)

FaultSpec == Init /\ [][FaultNext]_vars

(* ---- the processor under a discrete clock ---- *)

\* initTimer armed with the wrong duration
initTimer_underfilled == underfilledWait

\* initTimer, lines 241-247: the duration the timer of run()'s select is
\* (re)armed with, whatever was left of it
initTimer == fixedWait

\* What a step of worker w does to its timer and to the age of its batch.
\* Entering run()'s select arms the timer through initTimer; entering the
\* second select of handleTimerExpired re-arms it with underfilledWait (line
\* 257); anywhere else the timer has fired, is stopped or is about to be
\* re-armed.  The age restarts at each append and ends when the batch is
\* passed to bp.worker.  The age of the underfilled phase starts when the
\* second select is entered and ends when the batch is passed to bp.worker or
\* the wait is over with nothing to pass.
Clocked(w) ==
    /\ timerLeft' = [timerLeft EXCEPT ![w] =
            CASE wpc'[w] = "select" -> initTimer
              [] wpc'[w] = "uselect" -> underfilledWait
              [] OTHER -> 0]
    /\ age' = [age EXCEPT ![w] =
            IF Len(calls') > Len(calls) THEN -1
            ELSE IF Len(batch'[w]) > Len(batch[w]) THEN 0
            ELSE IF batch'[w] = <<>> THEN -1
            ELSE @]
    /\ phaseAge' = [phaseAge EXCEPT ![w] =
            IF Len(calls') > Len(calls) THEN -1
            ELSE IF wpc'[w] = "uselect" THEN (IF @ = -1 THEN 0 ELSE @)
            ELSE IF batch'[w] = <<>> THEN -1
            ELSE @]

\* worker w is blocked: it is inside bp.worker, has left run(), or waits in a
\* select none of whose cases is ready
Waiting(w) ==
    \/ wpc[w] = "done"
    \/ InProcess(w)
    \/ /\ wpc[w] \in {"select", "uselect"}
       /\ timerLeft[w] > 0
       /\ Len(tasks) = 0
       /\ ~tasksClosed
       /\ wpc[w] = "uselect" => ~stop

\* One tick of the clock passes.  A goroutine that can run does so before the
\* clock advances, and a timer fires when its duration has passed: time passes
\* only while every worker is blocked.  The age of a batch is followed up to
\* one tick past fixedWait + underfilledWait, the age of an underfilled phase
\* up to one tick past underfilledWait.
Tick ==
    /\ ~panicked
    /\ \A w \in Workers : Waiting(w)
    /\ \A w \in Workers : age[w] <= fixedWait + underfilledWait
    /\ timerLeft' = [w \in Workers |->
            IF wpc[w] \in {"select", "uselect"} THEN timerLeft[w] - 1 ELSE timerLeft[w]]
    /\ age' = [w \in Workers |-> IF age[w] >= 0 THEN age[w] + 1 ELSE age[w]]
    /\ phaseAge' = [w \in Workers |->
            IF phaseAge[w] >= 0 /\ phaseAge[w] <= underfilledWait
            THEN phaseAge[w] + 1 ELSE phaseAge[w]]
    /\ UNCHANGED <<cfgVars, chanVars, wpc, batch, timer, calls>>
    /\ UNCHANGED <<producerVars, closerVars, panicked>>

\* one worker, every pair of durations NewBatchProcessor accepts
TimedOptions ==
    {o \in [worker : {"fn"}, given : {OptionNames},
            maxSize : 1..MaxBatch, upperRatio : RatioOpts,
            lowerRatio : RatioOpts, fixedWait : 1..MaxWait,
            underfilledWait : 1..MaxWait, numWorkers : {1}] :
        o.maxSize * o.numWorkers * 2 <= MaxQueue}

TimedInit ==
    /\ opts \in TimedOptions
    /\ err = ConfigError(ApplyOptions(opts))
    /\ err = "nil"
    /\ Constructed(ApplyOptions(opts))
    /\ Untouched

TimedNext ==
    \/ \E p \in Producers : AddCheck(p)
    \/ \E p \in Producers : AddSend(p)
    \/ \E w \in Workers : RunLoop(w) /\ Clocked(w)
    \/ \E w \in Workers : RunReceive(w) /\ Clocked(w)
    \/ \E w \in Workers : timerLeft[w] = 0 /\ TimerExpired(w) /\ Clocked(w)
    \/ \E w \in Workers : UnderfilledReceive(w) /\ Clocked(w)
    \/ \E w \in Workers : timerLeft[w] = 0 /\ UnderfilledExpired(w) /\ Clocked(w)
    \/ \E w \in Workers : UnderfilledStop(w) /\ Clocked(w)
    \/ \E w \in Workers : WorkerReturn(w) /\ Clocked(w)
    \/ \E c \in Closers : ShutdownCall(c)
    \/ \E c \in Closers : CloseStop(c)
    \/ \E c \in Closers : WgWait(c)
    \/ \E c \in Closers : CloseTasks(c)
    \/ \E c \in Closers : Drain(c)
    \/ \E c \in Closers : ShutdownReturn(c)
    \/ \E c \in Closers : ShutdownUnblock(c)
    \/ Tick

TimedSpec == TimedInit /\ [][TimedNext]_vars

(* ---- properties ---- *)

Range(s) == {s[i] : i \in 1..Len(s)}

\* item i was in the batch of some invocation of bp.worker
Delivered(i) == \E k \in 1..Len(calls) : i \in Range(calls[k].batch)

\* C1. No item loss: once a call to Shutdown has returned, every item for
\* which Add returned nil before Shutdown was called has been in the batch of
\* some invocation of the worker function.
NoItemLoss == returned => \A i \in acceptedEarly : Delivered(i)

\* Shutdown has returned after delivering early items both through a worker
\* goroutine and through its own drain of the queue
NoItemLossWitness ==
    /\ returned
    /\ \E k \in 1..Len(calls) : calls[k].by = 0 /\ Range(calls[k].batch) \subseteq acceptedEarly
    /\ \E k \in 1..Len(calls) : calls[k].by # 0 /\ Range(calls[k].batch) \subseteq acceptedEarly

\* C2. No duplicate delivery: no two invocations of the worker function have
\* an item in common (so no item is delivered twice and no batch is passed
\* twice).
NoDuplicateDelivery ==
    \A j, k \in 1..Len(calls) :
        j # k => Range(calls[j].batch) \cap Range(calls[k].batch) = {}

\* C3. Batch-size bound: every invocation of the worker function, by a worker
\* goroutine or by Shutdown's drain, receives between 1 and maxSize items.
BatchSizeBound ==
    \A k \in 1..Len(calls) :
        Len(calls[k].batch) >= 1 /\ Len(calls[k].batch) <= maxSize

\* C4. Non-empty batches: the worker function is never called with an empty
\* batch, and with no item ever accepted it is never called.
NonEmptyBatches ==
    /\ \A k \in 1..Len(calls) : Len(calls[k].batch) >= 1
    /\ accepted = {} => calls = <<>>

\* Shutdown has returned, every worker having left on the stop signal with an
\* empty batch and the drain having found the queue empty
NonEmptyBatchesWitness == returned /\ accepted = {} /\ calls = <<>>

\* C5. No post-shutdown processing: once a call to Shutdown has returned,
\* every worker goroutine has left run(), no invocation of the worker function
\* is in progress, and none starts.
NoPostShutdownProcessing ==
    /\ [](returned => /\ \A w \in Workers : wpc[w] = "done"
                      /\ \A c \in Closers : ~InBody(c))
    /\ [][returned => calls' = calls]_vars

\* every closer's call has returned, the last invocation of the worker
\* function being the drain's
NoPostShutdownProcessingWitness ==
    /\ \A c \in Closers : spc[c] = "returned"
    /\ Len(calls) > 0
    /\ calls[Len(calls)].by = 0

\* C6. Closed-aggregator rejection: an Add invoked once Shutdown has set
\* bp.closed returns the closed error and enqueues nothing.
ClosedRejection ==
    [][\A p \in Producers :
        (closed /\ AddCheck(p)) =>
            (result' = "closed" /\ ppc'[p] = "idle" /\ tasks' = tasks)]_vars

\* C7. Backpressure: on an open processor the send of Add is never blocked;
\* with the queue at capacity it returns the queue-full error and leaves the
\* queue unchanged, otherwise it appends the item at the tail and returns nil.
Backpressure ==
    /\ [](\A p \in Producers : (ppc[p] = "send" /\ ~closed) => ENABLED AddSend(p))
    /\ [][\A p \in Producers :
            (~closed /\ AddSend(p)) =>
                IF Len(tasks) >= TasksCap
                THEN result' = "full" /\ tasks' = tasks
                ELSE result' = "nil" /\ tasks' = Append(tasks, nextItem)]_vars

\* an Add has just been refused on an open processor whose queue is full
\* while every worker is inside the worker function
BackpressureWitness ==
    /\ ~closed
    /\ result = "full"
    /\ Len(tasks) = TasksCap
    /\ \A w \in Workers : InProcess(w)

\* C8. Shutdown is idempotent: a call made after another call has begun only
\* waits and returns; it changes nothing of the processor, closes no channel
\* and invokes nothing, and at most one call ever runs the shutdown body.
ShutdownIdempotent ==
    /\ [](Cardinality({c \in Closers : InBody(c)}) <= 1)
    /\ [][\A c \in Closers :
            (closeOnce # "fresh" /\ spc[c] \in {"idle", "blocked"} /\ spc'[c] # spc[c]) =>
                /\ spc'[c] \in {"blocked", "returned"}
                /\ UNCHANGED <<cfgVars, chanVars, workerVars, calls, producerVars,
                               remaining, panicked>>]_vars

\* every closer's call has returned: one ran the body, the others were later
\* calls
ShutdownIdempotentWitness ==
    /\ \A c \in Closers : spc[c] = "returned"
    /\ calls # <<>>

\* C9. Shutdown terminates: under fair scheduling every call to Shutdown
\* eventually returns.
ShutdownTerminates ==
    \A c \in Closers : (spc[c] # "idle") ~> (spc[c] = "returned")

\* the part of C9 about the workers: once bp.stop is closed every worker
\* goroutine eventually leaves run()
WorkersExit == stop ~> (\A w \in Workers : wpc[w] = "done")

\* a call to Shutdown returns unless the process dies of a panic
ShutdownTerminatesOrPanic ==
    \A c \in Closers : (spc[c] # "idle") ~> (spc[c] = "returned" \/ panicked)

\* C10. Eventual delivery without shutdown: under fair scheduling an item
\* accepted by Add is eventually passed to the worker function, unless
\* Shutdown is called.
EventualDelivery ==
    \A i \in Items : (i \in accepted) ~> (Delivered(i) \/ closeOnce # "fresh")

\* item i is accepted by a processor whose upper threshold is at least 1
AcceptedAboveZero(i) == i \in accepted /\ upperThreshold >= 1

\* eventual delivery for the configurations whose upper threshold is at least 1
EventualDeliveryAboveZero ==
    \A i \in Items : AcceptedAboveZero(i) ~> (Delivered(i) \/ closeOnce # "fresh")

\* C11. Timing bound for underfilled batches: measured in ticks of the clock,
\* a batch that a worker holds and has not yet passed to the worker function
\* is never older than fixedWait + underfilledWait, its age counted from the
\* last append to it (with no item arriving after the first, from the moment
\* it became non-empty), however far into a wait the worker was at the append.
TimingBound ==
    \A w \in Workers : age[w] <= fixedWait + underfilledWait

\* a batch below the lower threshold has waited out both timers in full: the
\* underfilledWait timer fires fixedWait + underfilledWait after the append
TimingBoundWitness ==
    \E w \in Workers :
        /\ wpc[w] = "uselect"
        /\ timerLeft[w] = 0
        /\ Len(batch[w]) = 1
        /\ age[w] = fixedWait + underfilledWait

\* C12. Immediate full-batch flush: a worker's batch never exceeds maxSize, a
\* worker never waits in a select (on the queue or a timer) holding maxSize
\* items, and the step a worker takes from the top of its loop with maxSize
\* items is the call of the worker function with exactly that batch.
ImmediateFullFlush ==
    /\ [](\A w \in Workers :
            /\ Len(batch[w]) <= maxSize
            /\ wpc[w] \in {"select", "uselect"} => Len(batch[w]) < maxSize)
    /\ [][\A w \in Workers :
            (wpc[w] = "loop" /\ Len(batch[w]) = maxSize /\ wpc'[w] # wpc[w]) =>
                /\ InProcess(w)'
                /\ calls' = Append(calls, [by |-> w, batch |-> batch[w]])]_vars

\* on an open processor a worker is inside the worker function with a batch
\* of maxSize = MaxBatch items, flushed at the threshold check
ImmediateFullFlushWitness ==
    \E w \in Workers :
        /\ ~closed
        /\ wpc[w] = "flushUpper"
        /\ maxSize = MaxBatch
        /\ Len(batch[w]) = maxSize

\* C13. Partial batches are released only by a timer: with one worker on an
\* open processor, an invocation of the worker function with fewer than
\* maxSize items begins only at the expiry of a timer (the fixedWait timer with
\* the lower threshold reached, or the underfilledWait timer), never at the
\* step that follows an append.
PartialOnlyByTimer ==
    [][\A w \in Workers :
        (/\ numWorkers = 1
         /\ ~closed
         /\ ~InProcess(w)
         /\ InProcess(w)'
         /\ Len(batch[w]) < maxSize) =>
            wpc'[w] \in {"flushLower", "flushUTimer"}]_vars

RECURSIVE Flat(_)
\* the concatenation of the batches of a sequence of invocations
Flat(cs) == IF cs = <<>> THEN <<>> ELSE Head(cs).batch \o Flat(Tail(cs))

\* C14. Single-worker FIFO: with one worker the concatenation of the batches,
\* in the order the worker function was invoked, is the sequence of accepted
\* items in submission order as far as it has been delivered, and the whole
\* of it once Shutdown has returned.
SingleWorkerFIFO ==
    numWorkers = 1 =>
        /\ Len(Flat(calls)) <= nextItem - 1
        /\ \A i \in 1..Len(Flat(calls)) : Flat(calls)[i] = i
        /\ returned => Len(Flat(calls)) = nextItem - 1

RECURSIVE Distinct(_)
\* a sequence of invocations without those that repeat the invocation before
Distinct(cs) ==
    IF Len(cs) <= 1 THEN cs
    ELSE IF cs[Len(cs)] = cs[Len(cs) - 1] THEN Distinct(SubSeq(cs, 1, Len(cs) - 1))
    ELSE Append(Distinct(SubSeq(cs, 1, Len(cs) - 1)), cs[Len(cs)])

\* single-worker FIFO but for the batches delivered twice in a row
SingleWorkerFIFOButRepeats ==
    numWorkers = 1 =>
        /\ Len(Flat(Distinct(calls))) <= nextItem - 1
        /\ \A i \in 1..Len(Flat(Distinct(calls))) : Flat(Distinct(calls))[i] = i
        /\ returned => Len(Flat(Distinct(calls))) = nextItem - 1

\* C15. Processing faults are swallowed: when the worker function fails inside
\* a worker goroutine, the process goes on, that worker continues its loop
\* with an empty batch, and the failed batch is neither retried nor re-queued.
FaultsSwallowed ==
    [][\A w \in Workers :
        WorkerPanic(w) =>
            /\ ~panicked'
            /\ wpc'[w] = "loop"
            /\ batch'[w] = <<>>]_vars

\* every option is passed, every argument of the request is one its option
\* accepts, and the options together pass the validation
ValidRequest(o) ==
    /\ o.worker # "nil"
    /\ o.given = OptionNames
    /\ o.maxSize > 0
    /\ o.numWorkers >= 1 /\ o.numWorkers <= 8
    /\ o.upperRatio > 0 /\ o.upperRatio <= 100
    /\ o.lowerRatio > 0 /\ o.lowerRatio <= o.upperRatio
    /\ o.fixedWait > 0 /\ o.fixedWait < o.underfilledWait

WorkerCountValidation ==
    (/\ err # "pending"
     /\ ValidRequest([opts EXCEPT !.numWorkers = 1])
     /\ opts.numWorkers < 1 \/ opts.numWorkers > 8) =>
        err = "numWorkers must be between 1 and 8"

\* C18. Batch-size and ratio validation: a request (valid otherwise) with
\* maxSize <= 0 is rejected with an error, and one with a lower ratio outside
\* (0, 1] is rejected with the error "lowerRatio must be between 0 and 1".
SizeAndRatioValidation ==
    /\ (/\ err # "pending"
        /\ ValidRequest([opts EXCEPT !.maxSize = 1])
        /\ opts.maxSize <= 0) =>
            err \notin {"pending", "nil"}
    /\ (/\ err # "pending"
        /\ ValidRequest([opts EXCEPT !.lowerRatio = opts.upperRatio])
        /\ opts.lowerRatio <= 0 \/ opts.lowerRatio > 100) =>
            err = "lowerRatio must be between 0 and 1"

\* C19. Queue capacity: the capacity of the queue is maxSize * numWorkers * 2
\* or, were that smaller, maxSize * 2; it is at least maxSize * numWorkers * 2,
\* and the queue never holds more items than its capacity.
QueueCapacity ==
    /\ TasksCap \in {maxSize * numWorkers * 2, maxSize * 2}
    /\ TasksCap >= maxSize * numWorkers * 2
    /\ TasksCap >= maxSize * 2
    /\ Len(tasks) <= TasksCap

\* the queue of a processor with MaxWorkers workers is filled to its capacity
QueueCapacityWitness ==
    /\ numWorkers = MaxWorkers
    /\ Len(tasks) = TasksCap
    /\ TasksCap = maxSize * numWorkers * 2
    /\ result = "nil"

\* C20. upperRatio has no effect: whenever a worker holding items reaches the
\* threshold check of its loop on a running processor, the check comes out the
\* same for every other upper ratio the validation accepts with this lower
\* ratio, so that two processors differing only in upperRatio and run under
\* the same schedule never part ways.
UpperRatioNoEffect ==
    \A w \in Workers : \A u \in RatioOpts :
        (/\ u >= lowerRatio
         /\ wpc[w] = "loop"
         /\ ~stop
         /\ Len(batch[w]) >= 1) =>
            ((Len(batch[w]) >= maxSize \/ Len(batch[w]) >= (maxSize * upperRatio) \div 100)
             <=> (Len(batch[w]) >= maxSize \/ Len(batch[w]) >= (maxSize * u) \div 100))

AbsoluteUnderfilledDeadline ==
    \A w \in Workers : phaseAge[w] <= underfilledWait

\* C24. Fixed-wait expiry rule: when the fixedWait timer of a worker expires,
\* the worker passes its batch to the worker function and stays in the fixed
\* phase if and only if the batch holds at least
\* max(1, floor(maxSize * lowerRatio)) items; otherwise, an empty batch
\* included, it calls nothing, keeps the batch and enters the underfilled wait
\* with the timer armed at underfilledWait.
FixedWaitExpiry ==
    [][\A w \in Workers :
        (wpc[w] = "select" /\ timerLeft[w] = 0 /\ TimerExpired(w)) =>
            LET f == (maxSize * lowerRatio) \div 100
                L == IF f > 1 THEN f ELSE 1
            IN IF Len(batch[w]) >= L
               THEN /\ calls' = Append(calls, [by |-> w, batch |-> batch[w]])
                    /\ wpc'[w] = "flushLower"
                    /\ Continuation(wpc'[w]) = "reset"
               ELSE /\ calls' = calls
                    /\ batch' = batch
                    /\ wpc'[w] = "uselect"
                    /\ timer'[w] = "underfilledWait"
                    /\ timerLeft'[w] = underfilledWait]_vars

\* after an earlier call of the worker function, a fixed wait has expired on
\* a worker holding one item with a lower threshold of 2: the worker has just
\* entered the underfilled wait with the item kept
FixedWaitExpiryWitness ==
    \E w \in Workers :
        /\ wpc[w] = "uselect"
        /\ timerLeft[w] = underfilledWait
        /\ phaseAge[w] = 0
        /\ Len(batch[w]) = 1
        /\ lowerThreshold = 2
        /\ Len(calls) >= 1

\* C25. Underfilled expiry and buffer reset: when the underfilledWait timer
\* of a worker expires the worker passes whatever it holds to the worker
\* function, if it holds anything, and returns to the fixed phase; and when
\* the worker function returns to a worker that keeps running, the batch of
\* the worker is empty, so that no item is passed on twice.
BufferReset ==
    [][\A w \in Workers :
        /\ (wpc[w] = "uselect" /\ UnderfilledExpired(w)) =>
                IF batch[w] # <<>>
                THEN /\ calls' = Append(calls, [by |-> w, batch |-> batch[w]])
                     /\ Continuation(wpc'[w]) = "reset"
                ELSE /\ calls' = calls
                     /\ wpc'[w] = "loop"
        /\ (InProcess(w) /\ WorkerReturn(w) /\ wpc'[w] # "done") =>
                batch'[w] = <<>>]_vars

\* the buffer reset at the flushes followed by resetBatchAndTimer only
BufferResetAfterReset ==
    [][\A w \in Workers :
        (InProcess(w) /\ WorkerReturn(w) /\ Continuation(wpc[w]) = "reset") =>
            batch'[w] = <<>> /\ timer'[w] = "nil" /\ wpc'[w] = "loop"]_vars

\* a step of worker w that is neither the receipt of an item nor the expiry
\* of a timer
ReleasedByStop(w) ==
    /\ WorkerStep(w)
    /\ ~WorkerReceive(w)
    /\ ~TimerExpired(w)
    /\ ~UnderfilledExpired(w)

\* C26. Cancellable waits: once bp.stop is closed, a worker blocked waiting
\* for an item or a timer, in the fixed wait as well as in the underfilled
\* wait, can go on to flush and exit without a further item arriving and
\* without a timer expiring.
CancellableWaits ==
    \A w \in Workers :
        (/\ stop
         /\ ~panicked
         /\ wpc[w] \in {"select", "uselect"}
         /\ Len(tasks) = 0) =>
            ENABLED ReleasedByStop(w)

\* the underfilled wait alone is cancellable
CancellableUnderfilledWait ==
    \A w \in Workers :
        (stop /\ ~panicked /\ wpc[w] = "uselect" /\ Len(tasks) = 0) =>
            ENABLED ReleasedByStop(w)

\* C27. No lock held across the worker function: an invocation of the worker
\* function by Shutdown's drain holds no lock of the processor, so a call to
\* Shutdown issued while it is in progress is not blocked by it.
NoLockAcrossProcess ==
    [][\A c \in Closers :
        (/\ \E d \in Closers : spc[d] = "inWorker"
         /\ ShutdownCall(c)) =>
            spc'[c] # "blocked"]_vars

\* an Add past its check can complete its select while the worker function
\* is being invoked, by a worker goroutine or by the drain
AddNotBlocked ==
    \A p \in Producers :
        (/\ ~panicked
         /\ ppc[p] = "send"
         /\ \/ \E w \in Workers : InProcess(w)
            \/ \E d \in Closers : spc[d] = "inWorker") =>
            ENABLED AddSend(p)

\* C28. Configuration invariants: every processor NewBatchProcessor returns
\* has 0 < lowerThreshold <= maxSize, 0 < fixedWait < underfilledWait and
\* 1 <= numWorkers <= 8, whatever values were passed to the options.
ConfigurationInvariants ==
    err = "nil" =>
        LET f == (maxSize * lowerRatio) \div 100
            L == IF f > 1 THEN f ELSE 1
        IN /\ 0 < L /\ L <= maxSize
           /\ L = lowerThreshold
           /\ 0 < fixedWait /\ fixedWait < underfilledWait
           /\ 1 <= numWorkers /\ numWorkers <= 8
           /\ DOMAIN wpc = 1..numWorkers

\* a processor has been returned for a request every option of which was
\* passed a value outside its range
ConfigurationInvariantsWitness ==
    /\ err = "nil"
    /\ opts.given = OptionNames
    /\ opts.maxSize < 0
    /\ opts.numWorkers = 0
    /\ opts.upperRatio = 0
    /\ opts.lowerRatio > 100
    /\ opts.fixedWait = 0
    /\ opts.underfilledWait = 0

\* C29. Configuration is immutable: no Add, worker step, timer expiry or
\* Shutdown changes maxSize, upperRatio, lowerRatio, fixedWait,
\* underfilledWait, numWorkers, the worker function or the capacity of the
\* queue, so that in every reachable state the accessors return the values
\* fixed at construction.
ConfigurationImmutable ==
    /\ [](/\ maxSize = ApplyOptions(opts).maxSize
          /\ upperRatio = ApplyOptions(opts).upperRatio
          /\ lowerRatio = ApplyOptions(opts).lowerRatio
          /\ fixedWait = ApplyOptions(opts).fixedWait
          /\ underfilledWait = ApplyOptions(opts).underfilledWait
          /\ numWorkers = ApplyOptions(opts).numWorkers
          /\ opts.worker = "fn"
          /\ TasksCap = ApplyOptions(opts).maxSize * ApplyOptions(opts).numWorkers * 2)
    /\ [][UNCHANGED <<opts, maxSize, upperRatio, lowerRatio, fixedWait,
                      underfilledWait, numWorkers>>]_vars

\* an Add has been accepted, a worker has called the worker function, a fixed
\* wait has expired and Shutdown has begun: the fields still hold the values
\* passed to the options
ConfigurationImmutableWitness ==
    /\ nextItem > 1
    /\ \E i \in 1..Len(calls) : calls[i].by # 0
    /\ \E w \in Workers : wpc[w] = "uselect"
    /\ closed /\ closeOnce = "running"
    /\ maxSize = opts.maxSize
    /\ numWorkers = opts.numWorkers
    /\ numWorkers = MaxWorkers

\* C30. Add racing with Shutdown is benign: however an Add (the read of
\* bp.closed, then the non-blocking send) interleaves with a Shutdown, the
\* send of Add is never made on the closed task channel and Add returns
\* nil or the queue-full error from it; there is no panic.
AddShutdownRaceBenign ==
    [][\A p \in Producers :
        (ppc[p] = "send" /\ AddSend(p)) =>
            /\ ~tasksClosed
            /\ ~panicked'
            /\ result' \in {"nil", "full"}]_vars

\* C31. Late accepted items are still processed: once a call to Shutdown has
\* returned, every item for which Add returned nil, the items accepted after
\* Shutdown set bp.closed or after the workers exited included, has been
\* passed to the worker function, and no item is left in the queue or in a
\* worker's batch.
LateItemsProcessed ==
    returned =>
        /\ \A i \in accepted : Delivered(i)
        /\ tasks = <<>>
        /\ \A w \in Workers : batch[w] = <<>>

\* Shutdown has returned after its drain passed on an item whose Add returned
\* nil only after Shutdown had been called
LateItemsProcessedWitness ==
    /\ returned
    /\ \E i \in accepted \ acceptedEarly :
            \E k \in 1..Len(calls) : calls[k].by = 0 /\ i \in Range(calls[k].batch)

\* the invocations of the worker function in progress: those made by worker
\* goroutines and the one made by the drain of Shutdown
InProgress ==
    {<<"worker", w>> : w \in {v \in Workers : InProcess(v)}}
        \cup {<<"drain", c>> : c \in {d \in Closers : spc[d] = "inWorker"}}

\* C32. Bounded process concurrency: at most numWorkers invocations of the
\* worker function are in progress at any time, and the invocation made by
\* the drain of Shutdown is in progress only when every worker goroutine has
\* exited, so that it overlaps no invocation made by a worker.
BoundedProcessConcurrency ==
    /\ Cardinality(InProgress) <= numWorkers
    /\ Cardinality({c \in Closers : spc[c] = "inWorker"}) <= 1
    /\ \A c \in Closers :
        spc[c] = "inWorker" =>
            /\ wg = 0
            /\ \A w \in Workers : wpc[w] = "done"

\* the drain's invocation is in progress after each of MaxWorkers workers
\* has made an invocation of its own
BoundedProcessConcurrencyWitness ==
    /\ numWorkers = MaxWorkers
    /\ \E c \in Closers : spc[c] = "inWorker"
    /\ \A w \in Workers : \E k \in 1..Len(calls) : calls[k].by = w

\* as many invocations as there are workers are in progress at once
AllWorkersInProcess ==
    numWorkers = MaxWorkers /\ \A w \in Workers : InProcess(w)

\* the value the request asks for option n: the value passed, or the default
\* of an option that is not passed
Requested(n) == IF n \in opts.given THEN opts[n] ELSE Defaults[n]

\* C33. Options are independently optional: NewBatchProcessor accepts every
\* request with a worker function in which, the options not passed being at
\* their defaults, 1 <= numWorkers <= 8, 0 < lowerRatio <= 1, maxSize > 0 and
\* 0 < fixedWait < underfilledWait; in particular a request that passes
\* WithLowerRatio alone, with any ratio in (0, 1], succeeds.
IndependentlyOptional ==
    (/\ err # "pending"
     /\ opts.worker = "fn"
     /\ "upperRatio" \notin opts.given
     /\ Requested("numWorkers") >= 1 /\ Requested("numWorkers") <= 8
     /\ Requested("lowerRatio") > 0 /\ Requested("lowerRatio") <= 100
     /\ Requested("maxSize") > 0
     /\ Requested("fixedWait") > 0
     /\ Requested("fixedWait") < Requested("underfilledWait")) =>
        err = "nil"

\* the same for the requests whose lower ratio does not exceed the default
\* upper ratio
OptionalBelowUpperRatio ==
    (/\ err # "pending"
     /\ opts.worker = "fn"
     /\ "upperRatio" \notin opts.given
     /\ Requested("numWorkers") >= 1 /\ Requested("numWorkers") <= 8
     /\ Requested("lowerRatio") > 0 /\ Requested("lowerRatio") <= Defaults.upperRatio
     /\ Requested("maxSize") > 0
     /\ Requested("fixedWait") > 0
     /\ Requested("fixedWait") < Requested("underfilledWait")) =>
        err = "nil"
====
